---- MODULE Spec2Model ----
(***************************************************************************)
(* A model of the visitor-logging web application in src/app.py: the IP    *)
(* resolver (get_client_ip), the geolocation client (get_country_from_ip), *)
(* the persistence adapter (get_cosmos_client, save_to_cosmos) and the     *)
(* GET / handler (index) that composes them.                               *)
(*                                                                         *)
(* Python values.  A str is a sequence of TLA+ strings: data that the code *)
(* inspects character by character (addresses, header values) is spelled   *)
(* one character per element, and a literal of the source that is only     *)
(* copied or concatenated is one element.  None is the one-element         *)
(* sequence None, whose element occurs in no str; a float is a sequence    *)
(* that starts with "float#".  A dict is a function from key names to      *)
(* values, so DOMAIN d is the set of its keys.                             *)
(***************************************************************************)
EXTENDS Integers, Sequences, FiniteSets, TLC

\* ------------------------------------------------------------------ bounds
\* Longest header value enumerated exhaustively over Chars.
MaxLen == 3
\* Number of request-handling threads of the hosting process.
NumThreads == 2
\* The clock runs from 0 to MaxClock ticks.
MaxClock == 3

\* ------------------------------------------------------- Python str helpers
None == <<"None#">>

\* str(v) as used by an f-string replacement field.
PyStr(v) == IF v = None THEN <<"None">> ELSE v

\* not v, for v a str or None
Falsy(v) == v = None \/ v = <<>>

StartsWith(s, p) == Len(s) >= Len(p) /\ SubSeq(s, 1, Len(p)) = p

\* c in s, for a one-character c
Contains(s, c) == \E i \in 1..Len(s) : s[i] = c

\* s.split(c)[0]: everything before the first c, or all of s
SplitFirst(s, c) ==
    IF Contains(s, c)
    THEN SubSeq(s, 1, (CHOOSE i \in 1..Len(s) :
                          s[i] = c /\ \A j \in 1..(i - 1) : s[j] # c) - 1)
    ELSE s

RECURSIVE LStrip(_)
LStrip(s) == IF s # <<>> /\ Head(s) = " " THEN LStrip(Tail(s)) ELSE s

RECURSIVE RStrip(_)
RStrip(s) ==
    IF s # <<>> /\ s[Len(s)] = " " THEN RStrip(SubSeq(s, 1, Len(s) - 1)) ELSE s

\* s.strip()
Strip(s) == RStrip(LStrip(s))

\* str(n) for a non-negative int: its decimal digits
DigitChar(d) == <<"0", "1", "2", "3", "4", "5", "6", "7", "8", "9">>[d + 1]

RECURSIVE Digits(_)
Digits(n) == IF n < 10 THEN <<DigitChar(n)>>
             ELSE Append(Digits(n \div 10), DigitChar(n % 10))

\* ------------------------------------------------------------ exceptions
\* An exception in flight: its class and str(e).  NoExc: nothing raised.
NoExc == [type |-> "", text |-> <<>>]
Exc(type, text) == [type |-> type, text |-> text]

\* What a piece of code hands back: a value, an exception, or (for the
\* geolocation and persistence calls) a request sent to an external service.
Return(v) == [kind |-> "return", val |-> v]
Raise(e) == [kind |-> "raise", exc |-> e]
SendGet(url) == [kind |-> "request", url |-> url]

\* ---------------------------------------------------------- IP resolver
AzureHeader == "X-Azure-ClientIP"
ForwardedHeader == "X-Forwarded-For"
RealIpHeader == "X-Real-IP"
IpHeaders == {AzureHeader, ForwardedHeader, RealIpHeader}
InfoHeaders == {"User-Agent", "Referer", "Accept-Language"}
HeaderNames == IpHeaders \cup InfoHeaders

\* request.headers.get(name)
HeaderGet(h, name) == h[name]

\* request.headers.get(name, default)
HeaderGetDefault(h, name, default) == IF h[name] = None THEN default ELSE h[name]

\* Selection with the second and third branches exchanged.
SelectAddress_RealFirst(h, peer) ==
    IF ~Falsy(HeaderGet(h, AzureHeader)) THEN HeaderGet(h, AzureHeader)
    ELSE IF ~Falsy(HeaderGet(h, RealIpHeader)) THEN HeaderGet(h, RealIpHeader)
    ELSE IF ~Falsy(HeaderGet(h, ForwardedHeader))
         THEN Strip(SplitFirst(HeaderGet(h, ForwardedHeader), ","))
    ELSE peer

\* The if/elif chain of get_client_ip: the address before port removal.
SelectAddress(h, peer) ==
    IF ~Falsy(HeaderGet(h, AzureHeader)) THEN HeaderGet(h, AzureHeader)
    ELSE IF ~Falsy(HeaderGet(h, ForwardedHeader))
         THEN Strip(SplitFirst(HeaderGet(h, ForwardedHeader), ","))
    ELSE IF ~Falsy(HeaderGet(h, RealIpHeader)) THEN HeaderGet(h, RealIpHeader)
    ELSE peer

\* Port removal: `if ":" in ip and not ip.startswith("["): ip = ip.split(":")[0]`
StripPort(ip) ==
    IF Contains(ip, ":") /\ ~StartsWith(ip, <<"[">>) THEN SplitFirst(ip, ":") ELSE ip

\* get_client_ip(): the value returned, or the exception raised.  With no
\* truthy header and no peer address, ip is None and `":" in ip` raises.
get_client_ip(h, peer) ==
    LET ip == SelectAddress(h, peer) IN
    IF ip = None
    THEN Raise(Exc("TypeError", <<"argument of type 'NoneType' is not iterable">>))
    ELSE Return(StripPort(ip))

\* ------------------------------------------------------ geolocation client
\* The fields requested from the provider (the url's fields= list).
GeoFields == {"status", "message", "country", "countryCode", "region", "city",
              "lat", "lon", "timezone"}

\* dict.get(key) and dict.get(key, default)
DictGet(d, k) == IF k \in DOMAIN d THEN d[k] ELSE None
DictGetDefault(d, k, default) == IF k \in DOMAIN d THEN d[k] ELSE default

\* The url of the GET (line 84).
GeoUrl(ip) ==
    <<"http://ip-api.com/json/">> \o ip \o
    <<"?fields=status,message,country,countryCode,region,city,lat,lon,timezone">>

\* The condition of the "Skip for local IPs" branch, for a str.
IsLocalIp_No172(ip) ==
    \/ ip \in {<<"1", "2", "7", ".", "0", ".", "0", ".", "1">>,
               <<"l", "o", "c", "a", "l", "h", "o", "s", "t">>}
    \/ StartsWith(ip, <<"1", "9", "2", ".", "1", "6", "8", ".">>)
    \/ StartsWith(ip, <<"1", "0", ".">>)

IsLocalIp(ip) ==
    \/ ip \in {<<"1", "2", "7", ".", "0", ".", "0", ".", "1">>,
               <<"l", "o", "c", "a", "l", "h", "o", "s", "t">>}
    \/ StartsWith(ip, <<"1", "9", "2", ".", "1", "6", "8", ".">>)
    \/ StartsWith(ip, <<"1", "0", ".">>)
    \/ StartsWith(ip, <<"1", "7", "2", ".">>)

LocalRecord == [country |-> <<"Local/Private">>, countryCode |-> <<"LOCAL">>,
                city |-> <<"Local">>, region |-> <<"Local">>]

InvalidRecord == [country |-> <<"Invalid IP">>, countryCode |-> <<"XX">>,
                  city |-> <<"Unknown">>, region |-> <<"Unknown">>]

\* The success branch with lat and lon exchanged.
SuccessRecord_Swapped(data) ==
    [country |-> DictGetDefault(data, "country", <<"Unknown">>),
     countryCode |-> DictGetDefault(data, "countryCode", <<"XX">>),
     city |-> DictGetDefault(data, "city", <<"Unknown">>),
     region |-> DictGetDefault(data, "region", <<"Unknown">>),
     latitude |-> DictGet(data, "lon"),
     longitude |-> DictGet(data, "lat"),
     timezone |-> DictGetDefault(data, "timezone", <<"Unknown">>)]

\* The record built on HTTP 200 with status == "success" (lines 95-103).
SuccessRecord(data) ==
    [country |-> DictGetDefault(data, "country", <<"Unknown">>),
     countryCode |-> DictGetDefault(data, "countryCode", <<"XX">>),
     city |-> DictGetDefault(data, "city", <<"Unknown">>),
     region |-> DictGetDefault(data, "region", <<"Unknown">>),
     latitude |-> DictGet(data, "lat"),
     longitude |-> DictGet(data, "lon"),
     timezone |-> DictGetDefault(data, "timezone", <<"Unknown">>)]

ApiErrorRecord(data) ==
    [country |-> <<"API Error: ">> \o PyStr(DictGetDefault(data, "message", <<"Unknown">>)),
     countryCode |-> <<"XX">>, city |-> <<"Unknown">>, region |-> <<"Unknown">>]

HttpErrorRecord(status_code) ==
    [country |-> <<"HTTP Error: ">> \o Digits(status_code),
     countryCode |-> <<"XX">>, city |-> <<"Unknown">>, region |-> <<"Unknown">>]

TimeoutRecord == [country |-> <<"Timeout Error">>, countryCode |-> <<"XX">>,
                  city |-> <<"Unknown">>, region |-> <<"Unknown">>]

ErrorRecord(e) == [country |-> <<"Error: ">> \o e.text, countryCode |-> <<"XX">>,
                   city |-> <<"Error">>, region |-> <<"Error">>]

\* requests.exceptions.Timeout and its subclasses.
TimeoutClasses == {"Timeout", "ConnectTimeout", "ReadTimeout"}

\* The except clauses with the catch-all written first: it takes the timeouts.
GeoExcept_CatchAllFirst(r) ==
    IF r.kind # "raise" THEN r ELSE Return(ErrorRecord(r.exc))

\* The except clauses without the catch-all: another exception propagates.
GeoExcept_NoCatchAll(r) ==
    IF r.kind # "raise" THEN r
    ELSE IF r.exc.type \in TimeoutClasses THEN Return(TimeoutRecord)
    ELSE r

\* The two except clauses of get_country_from_ip (lines 125-140), applied to
\* the outcome r of a part of the try block.
GeoExcept(r) ==
    IF r.kind # "raise" THEN r
    ELSE IF r.exc.type \in TimeoutClasses THEN Return(TimeoutRecord)
    ELSE Return(ErrorRecord(r.exc))

\* The entry without the empty-address check.
GeoBegin_NoValidation(ip) ==
    IF ip = None
    THEN Raise(Exc("AttributeError",
                   <<"'NoneType' object has no attribute 'startswith'">>))
    ELSE IF IsLocalIp(ip) THEN Return(LocalRecord)
    ELSE SendGet(GeoUrl(ip))

\* The try block up to requests.get (lines 57-87): a record returned, an
\* exception raised, or the GET sent.
GeoBegin(ip) ==
    IF ip = None
    THEN Raise(Exc("AttributeError",
                   <<"'NoneType' object has no attribute 'startswith'">>))
    ELSE IF IsLocalIp(ip) THEN Return(LocalRecord)
    ELSE IF Falsy(ip) THEN Return(InvalidRecord)
    ELSE SendGet(GeoUrl(ip))

\* response.json(): the parsed body, or the exception of a body that is not
\* JSON.
ResponseJson(body) ==
    IF body.k = "malformed"
    THEN Raise(Exc("JSONDecodeError", <<"Expecting value: line 1 column 1 (char 0)">>))
    ELSE Return(body)

\* The try block after requests.get has answered with `got` (lines 88-123).
GeoClassify(got) ==
    IF got.kind = "raise" THEN got
    ELSE IF got.status_code = 200
    THEN LET parsed == ResponseJson(got.body) IN
         IF parsed.kind = "raise" THEN parsed
         ELSE IF parsed.val.k # "dict"
         THEN Raise(Exc("AttributeError", <<"'list' object has no attribute 'get'">>))
         ELSE IF DictGet(parsed.val.d, "status") = <<"success">>
         THEN Return(SuccessRecord(parsed.val.d))
         ELSE Return(ApiErrorRecord(parsed.val.d))
    ELSE Return(HttpErrorRecord(got.status_code))

\* The whole of get_country_from_ip for an address that is answered without
\* a GET, and for one whose GET was answered with `got`.
GeoWithoutGet(ip) == GeoExcept(GeoBegin(ip))
GeoWithAnswer(got) == GeoExcept(GeoClassify(got))

\* ----------------------------------------------------- persistence adapter
TicksPerSecond == 2

\* int(datetime.now().timestamp()) at clock tick c: whole seconds.
UnixSeconds(c) == c \div TicksPerSecond

\* datetime.now().isoformat() at clock tick c; the fraction is left out when
\* it is zero, as isoformat() does.
IsoFormat(c) ==
    <<"T">> \o Digits(c \div TicksPerSecond) \o
    (IF c % TicksPerSecond = 0 THEN <<>> ELSE <<".">> \o Digits(c % TicksPerSecond))

\* d[k] = v on a dict
DictSet(d, k, v) == [x \in DOMAIN d \cup {k} |-> IF x = k THEN v ELSE d[x]]

\* DefaultAzureCredential(): the credential, or the exception it throws.
NewCredential(cred_ok) ==
    IF cred_ok THEN Return(<<"DefaultAzureCredential">>)
    ELSE Raise(Exc("ClientAuthenticationError", <<"Authentication failed">>))

\* A client object: the endpoint and the credential it was constructed from.
ClientOf(endpoint, credential) ==
    <<"CosmosClient#">> \o endpoint \o <<"#">> \o credential

\* CosmosClient(endpoint, credential=credential): the client, or the
\* exception the constructor throws.
NewClient(ctor_ok, endpoint, credential) ==
    IF ctor_ok THEN Return(ClientOf(endpoint, credential))
    ELSE Raise(Exc("CosmosHttpResponseError", <<"Cosmos connection failed">>))

\* An except clause for authentication errors only.
ClientExcept_AuthOnly(r) ==
    IF r.kind = "raise" /\ r.exc.type = "ClientAuthenticationError"
    THEN Return(None) ELSE r

\* The except clause left out: the exception goes to the caller.
ClientExcept_Reraise(r) == r

\* The except clause of get_cosmos_client (lines 29-31), applied to the
\* outcome r of its try block.
ClientExcept(r) == IF r.kind = "raise" THEN Return(None) ELSE r

\* get_cosmos_client (lines 23-31) for the configured endpoint, given
\* whether the credential and the client can be constructed.
get_cosmos_client(endpoint, cred_ok, ctor_ok) ==
    LET c == NewCredential(cred_ok) IN
    ClientExcept(IF c.kind = "raise" THEN c ELSE NewClient(ctor_ok, endpoint, c.val))

\* The id with the clock tick in place of the whole second.
DeriveId_Ticks(visitor_data, c) ==
    IF "ip_address" \notin DOMAIN visitor_data
    THEN Raise(Exc("KeyError", <<"'ip_address'">>))
    ELSE Return(PyStr(visitor_data["ip_address"]) \o <<"_">> \o Digits(c))

\* f"{visitor_data['ip_address']}_{int(datetime.now().timestamp())}" at tick c
DeriveId(visitor_data, c) ==
    IF "ip_address" \notin DOMAIN visitor_data
    THEN Raise(Exc("KeyError", <<"'ip_address'">>))
    ELSE Return(PyStr(visitor_data["ip_address"]) \o <<"_">> \o Digits(UnixSeconds(c)))

\* The except clauses with the already-exists clause reporting failure.
SaveExcept_ConflictFails(e) == FALSE

\* The except clauses of save_to_cosmos (lines 164-169): the value returned
\* for exception e.
SaveExcept(e) == e.type = "CosmosResourceExistsError"

\* container.create_item(body=doc) on a store: the answers the store can
\* give.  A document whose id is taken is rejected; any call can fail for
\* another reason (transport, authorization, throttling).
CreateItemAnswers(st, doc) ==
    {Raise(Exc("CosmosHttpResponseError", <<"Service unavailable">>))}
    \cup (IF \E d \in st : d["id"] = doc["id"]
          THEN {Raise(Exc("CosmosResourceExistsError", <<"Conflict">>))}
          ELSE {Return(doc)})

\* Every missing header defaulted to "Unknown".
BuildVisitorData_RefererUnknown(ip, h, info) ==
    [ip_address |-> ip,
     user_agent |-> HeaderGetDefault(h, "User-Agent", <<"Unknown">>),
     country |-> info["country"],
     country_code |-> info["countryCode"],
     city |-> info["city"],
     region |-> info["region"],
     latitude |-> DictGet(info, "latitude"),
     longitude |-> DictGet(info, "longitude"),
     timezone |-> DictGet(info, "timezone"),
     referer |-> HeaderGetDefault(h, "Referer", <<"Unknown">>),
     accept_language |-> HeaderGetDefault(h, "Accept-Language", <<"Unknown">>)]

\* ------------------------------------------------------------ GET / handler
\* The visitor_data dict of index (lines 187-199).
BuildVisitorData(ip, h, info) ==
    [ip_address |-> ip,
     user_agent |-> HeaderGetDefault(h, "User-Agent", <<"Unknown">>),
     country |-> info["country"],
     country_code |-> info["countryCode"],
     city |-> info["city"],
     region |-> info["region"],
     latitude |-> DictGet(info, "latitude"),
     longitude |-> DictGet(info, "longitude"),
     timezone |-> DictGet(info, "timezone"),
     referer |-> HeaderGetDefault(h, "Referer", <<"Direct">>),
     accept_language |-> HeaderGetDefault(h, "Accept-Language", <<"Unknown">>)]

\* ---------------------------------------------------------------- inputs
Threads == 1..NumThreads

EmptyDict == [k \in {} |-> None]
NoAnswer == [kind |-> "none"]
NoResponse == [status |-> 0]

\* Characters of header values: a digit, the port and list separators, the
\* bracket of an IPv6 literal and a blank.
Chars == {"1", ":", "[", ",", " "}
StrsUpTo(n) == UNION {[1..k -> Chars] : k \in 0..n}

SampleAddresses ==
    {<<"2", "0", "3", ".", "0", ".", "1", "1", "3", ".", "1">>,
     <<"2", "0", "3", ".", "0", ".", "1", "1", "3", ".", "1", ":", "8", "0", "8", "0">>,
     <<"[", ":", ":", "1", "]", ":", "8", "0">>,
     <<"2", "0", "0", "1", ":", "d", "b", "8", ":", ":", "1">>,
     <<"2", "0", "3", ".", "0", ".", "1", "1", "3", ".", "1", ",", " ",
       "1", "0", ".", "0", ".", "0", ".", "1">>}

\* What one address source of a request can hold: nothing, or a str.
SourceValues == {None} \cup StrsUpTo(MaxLen) \cup SampleAddresses
\* What the other three sources hold meanwhile.
PlainValues == {None, <<>>, <<"9">>}
Sources == IpHeaders \cup {"remote_addr"}

\* Arguments of get_country_from_ip.
GeoInputs ==
    {None, <<>>,
     <<"1", "2", "7", ".", "0", ".", "0", ".", "1">>,
     <<"l", "o", "c", "a", "l", "h", "o", "s", "t">>,
     <<"1", "9", "2", ".", "1", "6", "8", ".", "1", ".", "1">>,
     <<"1", "0", ".", "0", ".", "0", ".", "1">>,
     <<"1", "7", "2", ".", "1", "6", ".", "0", ".", "1">>,
     <<"1", "7", "2", ".", "2", "1", "7", ".", "3", ".", "4">>,
     <<"2", "0", "3", ".", "0", ".", "1", "1", "3", ".", "1">>,
     <<"8", ".", "8", ".", "8", ".", "8">>,
     <<"1", "1", "0", ".", "0", ".", "0", ".", "1">>,
     <<"1", "9", "2", ".", "1", "6", "8">>,
     <<"1", "2", "7", ".", "0", ".", "0", ".", "1", "1">>}

\* Values a field of the provider's JSON body can carry.
FieldValues(k) ==
    CASE k = "status" -> {<<"success">>, <<"fail">>}
      [] k = "message" -> {<<"private range">>, None}
      [] k = "country" -> {<<"United States">>, None}
      [] k = "countryCode" -> {<<"US">>}
      [] k = "region" -> {<<"NY">>}
      [] k = "city" -> {<<"New York">>}
      [] k = "lat" -> {<<"float#", "40.7128">>}
      [] k = "lon" -> {<<"float#", "-74.006">>}
      [] k = "timezone" -> {<<"America/New_York">>}

\* JSON objects over the fields S, each field present or not.
RECURSIVE ObjectsOver(_)
ObjectsOver(S) ==
    IF S = {} THEN {EmptyDict}
    ELSE LET k == CHOOSE x \in S : TRUE
             rest == ObjectsOver(S \ {k})
         IN  rest \cup {DictSet(d, k, v) : d \in rest, v \in FieldValues(k)}

JsonObjects == ObjectsOver(GeoFields)

HttpBodies == {[k |-> "dict", d |-> d] : d \in JsonObjects}
              \cup {[k |-> "list"], [k |-> "malformed"]}

Response(code, b) == [kind |-> "response", status_code |-> code, body |-> b]

\* Everything requests.get can do: answer, time out, or fail otherwise.
GeoAnswers ==
    {Response(200, b) : b \in HttpBodies}
    \cup {Response(c, [k |-> "malformed"]) : c \in {204, 404, 429, 500}}
    \cup {Raise(Exc(c, <<"timed out">>)) : c \in TimeoutClasses}
    \cup {Raise(Exc("ConnectionError", <<"Network error">>)),
          Raise(Exc("Exception", <<>>))}

\* ----------------------------------------------------------------- state
VARIABLES
    COSMOS_ENDPOINT, \* the configured endpoint (line 17)
    entry,        \* per thread: the function or route it executes
    pc,           \* per thread: its control point
    headers,      \* per thread: request.headers
    remote_addr,  \* per thread: request.remote_addr
    client_stub,  \* per thread: what a patched get_cosmos_client does, if patched
    steps,        \* per thread: the calls it has made, in order
    client_ip,    \* per thread: value returned by get_client_ip
    ip_address,   \* per thread: argument of get_country_from_ip
    upstream,     \* per thread: what requests.get did
    country_info, \* per thread: value returned by get_country_from_ip
    visitor_data, \* per thread: the dict index builds and renders
    save_arg,     \* per thread: the argument of save_to_cosmos as passed
    body,         \* per thread: that same dict object, as save_to_cosmos mutates it
    cosmos_env,   \* per thread: which of credential, client and container were obtained
    cosmos_client, \* per thread: value returned by get_cosmos_client
    id_tick,      \* per thread: clock read by the id's datetime.now()
    stamp_tick,   \* per thread: clock read by the timestamp's datetime.now()
    store_answer, \* per thread: what create_item did
    cosmos_saved, \* per thread: value returned by save_to_cosmos
    raised,       \* per thread: exception that left the function executed
    response,     \* per thread: the HTTP response of a route
    http_log,     \* GETs sent to the geolocation provider
    cosmos_log,   \* create_item calls made on the container
    store,        \* documents of the container
    clock         \* current time in ticks

vars == <<COSMOS_ENDPOINT, entry, pc, headers, remote_addr, client_stub, steps,
          client_ip, ip_address, upstream, country_info, visitor_data, save_arg,
          body, cosmos_env, cosmos_client, id_tick, stamp_tick, store_answer,
          cosmos_saved, raised, response, http_log, cosmos_log, store, clock>>

ipVars == <<client_ip>>
geoVars == <<ip_address, upstream, country_info, http_log>>
saveVars == <<save_arg, body, cosmos_env, cosmos_client, id_tick, stamp_tick,
              store_answer, cosmos_saved, cosmos_log, store>>
requestVars == <<COSMOS_ENDPOINT, entry, headers, remote_addr, client_stub>>

NoEnv == [cred_ok |-> FALSE, ctor_ok |-> FALSE, container_ok |-> FALSE]

\* A thread that has been given nothing to do.
NoHeaders == [n \in HeaderNames |-> None]

\* Everything but the inputs, before any thread has run.  a: per thread, the
\* function or route it executes ("none" for a thread that stays idle).
InitThreads(a) ==
    /\ entry = a
    /\ steps = [t \in Threads |-> <<>>]
    /\ client_ip = [t \in Threads |-> None]
    /\ upstream = [t \in Threads |-> NoAnswer]
    /\ country_info = [t \in Threads |-> EmptyDict]
    /\ visitor_data = [t \in Threads |-> EmptyDict]
    /\ cosmos_env = [t \in Threads |-> NoEnv]
    /\ cosmos_client = [t \in Threads |-> None]
    /\ id_tick = [t \in Threads |-> 0]
    /\ stamp_tick = [t \in Threads |-> 0]
    /\ store_answer = [t \in Threads |-> NoAnswer]
    /\ cosmos_saved = [t \in Threads |-> FALSE]
    /\ raised = [t \in Threads |-> NoExc]
    /\ response = [t \in Threads |-> NoResponse]
    /\ http_log = <<>>
    /\ cosmos_log = <<>>
    /\ clock = 0

\* The same with thread 1 executing a and the other threads idle.
InitCommon(a) == InitThreads([t \in Threads |-> IF t = 1 THEN a ELSE "none"])

\* The endpoint of the test environment (test_integration.py line 16).
TestEndpoint == <<"https://test-cosmos.documents.azure.com:443/">>

\* The application as deployed: get_cosmos_client is the one of app.py.
Unpatched == client_stub = [t \in Threads |-> NoAnswer]

\* --------------------------------------------------------------- actions
\* Where a thread goes when the function it called comes back: a thread
\* executing that function itself is done, a route carries on.
IsUnit(t) ==
    entry[t] \in {"get_cosmos_client", "get_client_ip", "get_country_from_ip",
                  "save_to_cosmos"}

\* The except clause of index (lines 210-212).
ErrorPage(e) == [status |-> 500, template |-> "error.html", error |-> e.text]

\* The except clause of api_visitor_info (lines 232-234).
ErrorJson(e) == [status |-> 500, json |-> [error |-> e.text]]

\* The except clause of health_check (lines 251-262).
Unhealthy(e, now) ==
    [status |-> 500,
     json |-> [status |-> <<"unhealthy">>, error |-> e.text,
               timestamp |-> IsoFormat(now)]]

\* What the except clause of the route of thread t answers to exception e.
ExceptClause(t, e) ==
    CASE entry[t] = "index" -> ErrorPage(e)
      [] entry[t] = "api_visitor_info" -> ErrorJson(e)
      [] entry[t] = "health_check" -> Unhealthy(e, clock)

\* No except clause: the exception leaves the route.
Propagate_Uncaught(t, e) ==
    /\ pc' = [pc EXCEPT ![t] = "done"]
    /\ raised' = [raised EXCEPT ![t] = e]
    /\ UNCHANGED response

\* An exception e reaches the top of what thread t executes: it leaves a
\* function called alone, and a route answers it with its except clause.
Propagate(t, e) ==
    /\ pc' = [pc EXCEPT ![t] = "done"]
    /\ IF IsUnit(t)
       THEN raised' = [raised EXCEPT ![t] = e] /\ UNCHANGED response
       ELSE response' = [response EXCEPT ![t] = ExceptClause(t, e)] /\ UNCHANGED raised

\* What the call get_cosmos_client() of thread t does: app.py's function, or
\* the patch a test put in its place.
ClientOutcome(t, cred_ok, ctor_ok) ==
    IF client_stub[t].kind = "none"
    THEN get_cosmos_client(COSMOS_ENDPOINT, cred_ok, ctor_ok)
    ELSE client_stub[t]

\* get_cosmos_client(), called alone.
GetCosmosClient(t) ==
    /\ pc[t] = "client"
    /\ steps' = [steps EXCEPT ![t] = Append(@, "get_cosmos_client")]
    /\ \E cred_ok \in BOOLEAN, ctor_ok \in BOOLEAN :
          /\ cosmos_env' = [cosmos_env EXCEPT ![t] =
                 [cred_ok |-> cred_ok, ctor_ok |-> ctor_ok, container_ok |-> FALSE]]
          /\ LET r == ClientOutcome(t, cred_ok, ctor_ok) IN
             IF r.kind = "raise"
             THEN Propagate(t, r.exc) /\ UNCHANGED cosmos_client
             ELSE /\ cosmos_client' = [cosmos_client EXCEPT ![t] = r.val]
                  /\ pc' = [pc EXCEPT ![t] = "done"]
                  /\ UNCHANGED <<raised, response>>
    /\ UNCHANGED <<requestVars, ipVars, geoVars, visitor_data, save_arg, body,
                   id_tick, stamp_tick, store_answer, cosmos_saved, cosmos_log,
                   store, clock>>

\* get_client_ip(), called directly or as the first step of a route.
ResolveIP(t) ==
    /\ pc[t] = "resolve"
    /\ steps' = [steps EXCEPT ![t] = Append(@, "get_client_ip")]
    /\ LET r == get_client_ip(headers[t], remote_addr[t]) IN
       IF r.kind = "raise"
       THEN Propagate(t, r.exc) /\ UNCHANGED <<client_ip, ip_address>>
       ELSE /\ client_ip' = [client_ip EXCEPT ![t] = r.val]
            /\ IF IsUnit(t)
               THEN pc' = [pc EXCEPT ![t] = "done"] /\ UNCHANGED ip_address
               ELSE /\ pc' = [pc EXCEPT ![t] = "geo"]
                    /\ ip_address' = [ip_address EXCEPT ![t] = r.val]
            /\ UNCHANGED <<raised, response>>
    /\ UNCHANGED <<requestVars, upstream, country_info, http_log, visitor_data,
                   saveVars, clock>>

\* get_country_from_ip comes back with r.
GeoFinish(t, r) ==
    IF r.kind = "raise"
    THEN Propagate(t, r.exc) /\ UNCHANGED country_info
    ELSE /\ country_info' = [country_info EXCEPT ![t] = r.val]
         /\ pc' = [pc EXCEPT ![t] =
                IF IsUnit(t) THEN "done"
                ELSE IF entry[t] = "index" THEN "build" ELSE "respond"]
         /\ UNCHANGED <<raised, response>>

\* get_country_from_ip up to the GET: it returns at once, or sends the GET.
GeoCall(t) ==
    /\ pc[t] = "geo"
    /\ steps' = [steps EXCEPT ![t] = Append(@, "get_country_from_ip")]
    /\ LET r == GeoWithoutGet(ip_address[t]) IN
       IF r.kind = "request"
       THEN /\ http_log' = Append(http_log, [thread |-> t, url |-> r.url])
            /\ pc' = [pc EXCEPT ![t] = "geo_wait"]
            /\ UNCHANGED <<country_info, raised, response>>
       ELSE GeoFinish(t, r) /\ UNCHANGED http_log
    /\ UNCHANGED <<requestVars, ipVars, ip_address, upstream, visitor_data,
                   saveVars, clock>>

\* A timeout answered by sending the GET again.
GeoReply_Retry(t, answers) ==
    /\ pc[t] = "geo_wait"
    /\ \E got \in answers :
          /\ upstream' = [upstream EXCEPT ![t] = got]
          /\ IF got.kind = "raise" /\ got.exc.type \in TimeoutClasses
             THEN /\ http_log' = Append(http_log,
                         [thread |-> t, url |-> GeoUrl(ip_address[t])])
                  /\ UNCHANGED <<pc, country_info, raised, response>>
             ELSE GeoFinish(t, GeoWithAnswer(got)) /\ UNCHANGED http_log
    /\ UNCHANGED <<requestVars, steps, ipVars, ip_address, visitor_data,
                   saveVars, clock>>

\* requests.get comes back with one of `answers`; the rest of
\* get_country_from_ip.
GeoReply(t, answers) ==
    /\ pc[t] = "geo_wait"
    /\ \E got \in answers :
          /\ upstream' = [upstream EXCEPT ![t] = got]
          /\ GeoFinish(t, GeoWithAnswer(got))
    /\ UNCHANGED <<requestVars, steps, ipVars, ip_address, http_log, visitor_data,
                   saveVars, clock>>

\* The dict kept in a module-level variable that all requests share.
IndexBuild_Global(t) ==
    /\ pc[t] = "build"
    /\ steps' = [steps EXCEPT ![t] = Append(@, "visitor_data")]
    /\ LET v == BuildVisitorData(client_ip[t], headers[t], country_info[t]) IN
          /\ visitor_data' = [u \in Threads |-> v]
          /\ save_arg' = [save_arg EXCEPT ![t] = v]
          /\ body' = [body EXCEPT ![t] = v]
    /\ pc' = [pc EXCEPT ![t] = "save"]
    /\ UNCHANGED <<requestVars, ipVars, geoVars, cosmos_env, cosmos_client,
                   id_tick, stamp_tick, store_answer, cosmos_saved, cosmos_log,
                   store, raised, response, clock>>

\* The dict of index, built once get_country_from_ip is back (lines 186-204);
\* save_to_cosmos is handed visitor_data.copy().
IndexBuild(t) ==
    /\ pc[t] = "build"
    /\ steps' = [steps EXCEPT ![t] = Append(@, "visitor_data")]
    /\ LET v == BuildVisitorData(client_ip[t], headers[t], country_info[t]) IN
          /\ visitor_data' = [visitor_data EXCEPT ![t] = v]
          /\ save_arg' = [save_arg EXCEPT ![t] = v]
          /\ body' = [body EXCEPT ![t] = v]
    /\ pc' = [pc EXCEPT ![t] = "save"]
    /\ UNCHANGED <<requestVars, ipVars, geoVars, cosmos_env, cosmos_client,
                   id_tick, stamp_tick, store_answer, cosmos_saved, cosmos_log,
                   store, raised, response, clock>>

\* save_to_cosmos comes back with b.
SaveFinish(t, b) ==
    /\ cosmos_saved' = [cosmos_saved EXCEPT ![t] = b]
    /\ pc' = [pc EXCEPT ![t] = IF IsUnit(t) THEN "done" ELSE "render"]

\* save_to_cosmos up to the id (lines 145-157): the client, the container,
\* and the first datetime.now().
SaveBegin(t) ==
    /\ pc[t] = "save"
    /\ steps' = [steps EXCEPT ![t] = Append(@, "save_to_cosmos")]
    /\ \E cred_ok \in BOOLEAN, ctor_ok \in BOOLEAN, container_ok \in BOOLEAN :
          /\ cosmos_env' = [cosmos_env EXCEPT ![t] =
                 [cred_ok |-> cred_ok, ctor_ok |-> ctor_ok,
                  container_ok |-> container_ok]]
          /\ LET c == ClientOutcome(t, cred_ok, ctor_ok) IN
             IF c.kind = "raise"
             THEN /\ SaveFinish(t, SaveExcept(c.exc))
                  /\ UNCHANGED <<cosmos_client, body, id_tick>>
             ELSE
             /\ cosmos_client' = [cosmos_client EXCEPT ![t] = c.val]
             /\ IF c.val = None
                THEN SaveFinish(t, FALSE) /\ UNCHANGED <<body, id_tick>>
                ELSE IF ~container_ok
                THEN /\ SaveFinish(t, SaveExcept(Exc("Exception", <<"no container">>)))
                     /\ UNCHANGED <<body, id_tick>>
                ELSE LET r == DeriveId(body[t], clock) IN
                     IF r.kind = "raise"
                     THEN SaveFinish(t, SaveExcept(r.exc)) /\ UNCHANGED <<body, id_tick>>
                     ELSE /\ body' = [body EXCEPT ![t] = DictSet(body[t], "id", r.val)]
                          /\ id_tick' = [id_tick EXCEPT ![t] = clock]
                          /\ pc' = [pc EXCEPT ![t] = "save_stamp"]
                          /\ UNCHANGED cosmos_saved
    /\ UNCHANGED <<requestVars, ipVars, geoVars, visitor_data, save_arg,
                   stamp_tick, store_answer, cosmos_log, store, raised,
                   response, clock>>

\* The second datetime.now() and the create_item call (lines 158-160).
SaveStamp(t) ==
    /\ pc[t] = "save_stamp"
    /\ LET doc == DictSet(body[t], "timestamp", IsoFormat(clock)) IN
          /\ body' = [body EXCEPT ![t] = doc]
          /\ cosmos_log' = Append(cosmos_log, [thread |-> t, doc |-> doc])
    /\ stamp_tick' = [stamp_tick EXCEPT ![t] = clock]
    /\ pc' = [pc EXCEPT ![t] = "save_wait"]
    /\ UNCHANGED <<requestVars, steps, ipVars, geoVars, visitor_data, save_arg,
                   cosmos_env, cosmos_client, id_tick, store_answer, cosmos_saved,
                   store, raised, response, clock>>

\* upsert_item in place of create_item: a document whose id is taken replaces
\* the one stored.
SaveReply_Upsert(t) ==
    /\ pc[t] = "save_wait"
    /\ store_answer' = [store_answer EXCEPT ![t] = Return(body[t])]
    /\ store' = {d \in store : d["id"] # body[t]["id"]} \cup {body[t]}
    /\ SaveFinish(t, TRUE)
    /\ UNCHANGED <<requestVars, steps, ipVars, geoVars, visitor_data, save_arg,
                   body, cosmos_env, cosmos_client, id_tick, stamp_tick,
                   cosmos_log, raised, response, clock>>

\* create_item comes back; the rest of save_to_cosmos (lines 161-169).
SaveReply(t) ==
    /\ pc[t] = "save_wait"
    /\ \E a \in CreateItemAnswers(store, body[t]) :
          /\ store_answer' = [store_answer EXCEPT ![t] = a]
          /\ IF a.kind = "return"
             THEN store' = store \cup {a.val} /\ SaveFinish(t, TRUE)
             ELSE UNCHANGED store /\ SaveFinish(t, SaveExcept(a.exc))
    /\ UNCHANGED <<requestVars, steps, ipVars, geoVars, visitor_data, save_arg,
                   body, cosmos_env, cosmos_client, id_tick, stamp_tick,
                   cosmos_log, raised, response, clock>>

\* No copy handed to save_to_cosmos: index keeps the dict save_to_cosmos
\* wrote to.
KeptByIndex_Alias(kept, passed) == passed

\* The dict index holds once save_to_cosmos is back: save_to_cosmos was given
\* visitor_data.copy() (line 204), so what it wrote to `passed` does not show
\* in `kept`.
KeptByIndex(kept, passed) == kept

\* The persistence flag always shown as set.
IndexPage_AlwaysSaved(v, saved) ==
    [status |-> 200, template |-> "index.html", visitor_data |-> v,
     cosmos_saved |-> TRUE]

\* The page of index (lines 206-208).
IndexPage(v, saved) ==
    [status |-> 200, template |-> "index.html", visitor_data |-> v,
     cosmos_saved |-> saved]

\* What rendering index.html does: the page, or an exception of the template
\* engine.
RenderAnswers ==
    {Return(<<"index.html">>), Raise(Exc("TemplateError", <<"template error">>))}

\* render_template("index.html", ...) of index (lines 206-208).
IndexRender(t) ==
    /\ pc[t] = "render"
    /\ steps' = [steps EXCEPT ![t] = Append(@, "render_template")]
    /\ \E r \in RenderAnswers :
          IF r.kind = "raise"
          THEN Propagate(t, r.exc)
          ELSE /\ response' = [response EXCEPT ![t] =
                      IndexPage(KeptByIndex(visitor_data[t], body[t]),
                                cosmos_saved[t])]
               /\ pc' = [pc EXCEPT ![t] = "done"]
               /\ UNCHANGED raised
    /\ UNCHANGED <<requestVars, ipVars, geoVars, visitor_data, saveVars, clock>>

\* The country_info key left out.
ApiBody_NoCountryInfo(ip, h, info, now) ==
    [status |-> 200,
     json |-> [ip_address |-> ip,
               user_agent |-> HeaderGetDefault(h, "User-Agent", <<"Unknown">>),
               timestamp |-> IsoFormat(now)]]

\* The answer of api_visitor_info (lines 222-230).
ApiBody(ip, h, info, now) ==
    [status |-> 200,
     json |-> [ip_address |-> ip,
               user_agent |-> HeaderGetDefault(h, "User-Agent", <<"Unknown">>),
               country_info |-> info,
               timestamp |-> IsoFormat(now)]]

\* The route also stores what it answers.
ApiRespond_Stores(t) ==
    /\ pc[t] = "respond"
    /\ steps' = [steps EXCEPT ![t] = Append(@, "jsonify")]
    /\ response' = [response EXCEPT ![t] =
           ApiBody(client_ip[t], headers[t], country_info[t], clock)]
    /\ store' = store \cup {[ip_address |-> client_ip[t],
                             id |-> client_ip[t] \o <<"_">> \o Digits(UnixSeconds(clock)),
                             timestamp |-> IsoFormat(clock)]}
    /\ pc' = [pc EXCEPT ![t] = "done"]
    /\ UNCHANGED <<requestVars, ipVars, geoVars, visitor_data, save_arg, body,
                   cosmos_env, cosmos_client, id_tick, stamp_tick, store_answer,
                   cosmos_saved, cosmos_log, raised, clock>>

\* jsonify(...) of api_visitor_info, once get_country_from_ip is back.
ApiRespond(t) ==
    /\ pc[t] = "respond"
    /\ steps' = [steps EXCEPT ![t] = Append(@, "jsonify")]
    /\ response' = [response EXCEPT ![t] =
           ApiBody(client_ip[t], headers[t], country_info[t], clock)]
    /\ pc' = [pc EXCEPT ![t] = "done"]
    /\ UNCHANGED <<requestVars, ipVars, geoVars, visitor_data, saveVars, raised,
                   clock>>

\* "connected" whatever get_cosmos_client returned.
HealthBody_AlwaysConnected(client, now) ==
    [status |-> 200,
     json |-> [status |-> <<"healthy">>, cosmos_db |-> <<"connected">>,
               timestamp |-> IsoFormat(now)]]

\* The answer of health_check to what get_cosmos_client returned
\* (lines 242-250).
HealthBody(client, now) ==
    [status |-> 200,
     json |-> [status |-> <<"healthy">>,
               cosmos_db |-> IF client # None THEN <<"connected">>
                             ELSE <<"disconnected">>,
               timestamp |-> IsoFormat(now)]]

\* health_check (lines 237-262).
HealthCheck(t) ==
    /\ pc[t] = "health"
    /\ steps' = [steps EXCEPT ![t] = Append(@, "get_cosmos_client")]
    /\ \E cred_ok \in BOOLEAN, ctor_ok \in BOOLEAN :
          /\ cosmos_env' = [cosmos_env EXCEPT ![t] =
                 [cred_ok |-> cred_ok, ctor_ok |-> ctor_ok, container_ok |-> FALSE]]
          /\ LET r == ClientOutcome(t, cred_ok, ctor_ok) IN
             IF r.kind = "raise"
             THEN Propagate(t, r.exc) /\ UNCHANGED cosmos_client
             ELSE /\ cosmos_client' = [cosmos_client EXCEPT ![t] = r.val]
                  /\ response' = [response EXCEPT ![t] = HealthBody(r.val, clock)]
                  /\ pc' = [pc EXCEPT ![t] = "done"]
                  /\ UNCHANGED raised
    /\ UNCHANGED <<requestVars, ipVars, geoVars, visitor_data, save_arg, body,
                   id_tick, stamp_tick, store_answer, cosmos_saved, cosmos_log,
                   store, clock>>

\* Time passes.  Only the steps that call datetime.now() read the clock, so
\* only the ticks that a pending read can observe are taken.
Tick ==
    /\ clock < MaxClock
    /\ \E t \in Threads : pc[t] \in {"save", "save_stamp", "respond", "health"}
    /\ clock' = clock + 1
    /\ UNCHANGED <<requestVars, pc, steps, ipVars, geoVars, visitor_data,
                   saveVars, raised, response>>

\* ------------------------------------------------- get_client_ip, called alone
InitIP ==
    /\ InitCommon("get_client_ip")
    /\ COSMOS_ENDPOINT = TestEndpoint
    /\ Unpatched
    /\ pc = [t \in Threads |-> IF t = 1 THEN "resolve" ELSE "idle"]
    /\ \E focus \in Sources, v \in SourceValues, o \in [Sources -> PlainValues] :
          LET src == [s \in Sources |-> IF s = focus THEN v ELSE o[s]] IN
          /\ headers = [t \in Threads |->
                 [n \in HeaderNames |->
                     IF t = 1 /\ n \in IpHeaders THEN src[n] ELSE None]]
          /\ remote_addr = [t \in Threads |->
                 IF t = 1 THEN src["remote_addr"] ELSE None]
    /\ ip_address = [t \in Threads |-> None]
    /\ save_arg = [t \in Threads |-> EmptyDict]
    /\ body = [t \in Threads |-> EmptyDict]
    /\ store = {}

NextIP == \E t \in Threads : ResolveIP(t)

SpecIP == InitIP /\ [][NextIP]_vars

\* ------------------------------------------- get_country_from_ip, called alone
InitGeo ==
    /\ InitCommon("get_country_from_ip")
    /\ COSMOS_ENDPOINT = TestEndpoint
    /\ Unpatched
    /\ pc = [t \in Threads |-> IF t = 1 THEN "geo" ELSE "idle"]
    /\ headers = [t \in Threads |-> NoHeaders]
    /\ remote_addr = [t \in Threads |-> None]
    /\ \E ip \in GeoInputs :
          ip_address = [t \in Threads |-> IF t = 1 THEN ip ELSE None]
    /\ save_arg = [t \in Threads |-> EmptyDict]
    /\ body = [t \in Threads |-> EmptyDict]
    /\ store = {}

NextGeo == \E t \in Threads : GeoCall(t) \/ GeoReply(t, GeoAnswers)

SpecGeo == InitGeo /\ [][NextGeo]_vars

\* ------------------------------------------------ save_to_cosmos, called alone
PublicIp == <<"2", "0", "3", ".", "0", ".", "1", "1", "3", ".", "1">>
PrivateIp == <<"1", "0", ".", "0", ".", "0", ".", "1">>

\* Arguments of save_to_cosmos: the dicts of the unit tests, one without an
\* ip_address, one whose ip_address is None, one that already carries an id
\* and a timestamp, and one as index builds it.
SaveInputs ==
    {[ip_address |-> PublicIp, country |-> <<"United States">>],
     [ip_address |-> PublicIp],
     [ip_address |-> PrivateIp],
     [ip_address |-> None],
     [country |-> <<"United States">>],
     [ip_address |-> PublicIp, id |-> <<"stale id">>, timestamp |-> <<"stale">>],
     BuildVisitorData(PublicIp, NoHeaders, LocalRecord)}

\* A document an earlier call stored for `ip` at clock tick c.
StoredAt(ip, c) ==
    [ip_address |-> ip,
     id |-> ip \o <<"_">> \o Digits(UnixSeconds(c)),
     timestamp |-> IsoFormat(c)]

\* Contents of the container when the call starts: empty, or documents of
\* earlier calls for PublicIp in the first and in the second clock second.
InitStores == SUBSET {StoredAt(PublicIp, 0), StoredAt(PublicIp, TicksPerSecond)}

InitSave ==
    /\ InitCommon("save_to_cosmos")
    /\ COSMOS_ENDPOINT = TestEndpoint
    /\ Unpatched
    /\ pc = [t \in Threads |-> IF t = 1 THEN "save" ELSE "idle"]
    /\ headers = [t \in Threads |-> NoHeaders]
    /\ remote_addr = [t \in Threads |-> None]
    /\ ip_address = [t \in Threads |-> None]
    /\ \E d \in SaveInputs :
          /\ save_arg = [t \in Threads |-> IF t = 1 THEN d ELSE EmptyDict]
          /\ body = [t \in Threads |-> IF t = 1 THEN d ELSE EmptyDict]
    /\ store \in InitStores

NextSave ==
    \/ \E t \in Threads : SaveBegin(t) \/ SaveStamp(t) \/ SaveReply(t)
    \/ Tick

SpecSave == InitSave /\ [][NextSave]_vars

\* --------------------------------------------- get_cosmos_client, called alone
\* Values of the COSMOS_ENDPOINT environment variable: unset, the one of the
\* tests, and short strings.
Endpoints == {None, TestEndpoint} \cup StrsUpTo(MaxLen)

\* The state of a thread that runs neither a request nor save_to_cosmos.
InitNoRequest ==
    /\ headers = [t \in Threads |-> NoHeaders]
    /\ remote_addr = [t \in Threads |-> None]
    /\ ip_address = [t \in Threads |-> None]
    /\ save_arg = [t \in Threads |-> EmptyDict]
    /\ body = [t \in Threads |-> EmptyDict]
    /\ store = {}

InitClient ==
    /\ InitCommon("get_cosmos_client")
    /\ pc = [t \in Threads |-> IF t = 1 THEN "client" ELSE "idle"]
    /\ COSMOS_ENDPOINT \in Endpoints
    /\ Unpatched
    /\ InitNoRequest

NextClient == \E t \in Threads : GetCosmosClient(t)

SpecClient == InitClient /\ [][NextClient]_vars

\* ------------------------------------- GET /health, get_cosmos_client patched
\* What get_cosmos_client does in the tests of the route (test_routes.py
\* lines 135-177): app.py's function, or a patch that returns a client,
\* returns None, or raises.
HealthStubs ==
    {NoAnswer, Return(<<"Mock#">>), Return(None),
     Raise(Exc("Exception", <<"Health check error">>))}

InitHealth ==
    /\ InitCommon("health_check")
    /\ pc = [t \in Threads |-> IF t = 1 THEN "health" ELSE "idle"]
    /\ COSMOS_ENDPOINT \in {None, TestEndpoint}
    /\ \E stub \in HealthStubs :
          client_stub = [t \in Threads |-> IF t = 1 THEN stub ELSE NoAnswer]
    /\ InitNoRequest

NextHealth ==
    \/ \E t \in Threads : HealthCheck(t)
    \/ Tick

SpecHealth == InitHealth /\ [][NextHealth]_vars

\* ------------------------------------------------------------- the routes
\* What a header of a request to a route can hold.
HeaderSamples(n) ==
    CASE n = AzureHeader ->
            {None, <<"2", "0", "3", ".", "0", ".", "1", "1", "3", ".", "1",
                     ":", "8", "0", "8", "0">>}
      [] n = ForwardedHeader -> {None}
      [] n = RealIpHeader -> {None}
      [] n = "User-Agent" -> {None, <<"Mozilla/5.0 Test Browser">>}
      [] n = "Referer" -> {None, <<"https://google.com">>}
      [] n = "Accept-Language" -> {None}

\* Peer addresses of requests to a route.
PeerSamples == {None, <<"1", "2", "7", ".", "0", ".", "0", ".", "1">>, PublicIp}

\* Answers of requests.get to a route's lookup: a full success, a success
\* with no field, a provider failure, an HTTP error, a timeout, a transport
\* error.
RouteGeoAnswers ==
    {Response(200, [k |-> "dict", d |->
        [status |-> <<"success">>, country |-> <<"United States">>,
         countryCode |-> <<"US">>, region |-> <<"NY">>, city |-> <<"New York">>,
         lat |-> <<"float#", "40.7128">>, lon |-> <<"float#", "-74.006">>,
         timezone |-> <<"America/New_York">>]]),
     Response(200, [k |-> "dict", d |-> [status |-> <<"success">>]]),
     Response(200, [k |-> "dict", d |->
        [status |-> <<"fail">>, message |-> <<"private range">>]]),
     Response(429, [k |-> "malformed"]),
     Raise(Exc("Timeout", <<"timed out">>)),
     Raise(Exc("ConnectionError", <<"Network error">>))}

\* The routes, and where each one starts.
Routes == {"index", "api_visitor_info", "health_check"}
FirstPc(a) ==
    CASE a \in {"index", "api_visitor_info", "get_client_ip"} -> "resolve"
      [] a = "health_check" -> "health"
      [] a = "get_cosmos_client" -> "client"
      [] a = "get_country_from_ip" -> "geo"
      [] a = "save_to_cosmos" -> "save"
      [] a = "none" -> "idle"

Init ==
    /\ \E a \in Routes :
          /\ InitCommon(a)
          /\ pc = [t \in Threads |-> IF t = 1 THEN FirstPc(a) ELSE "idle"]
    /\ COSMOS_ENDPOINT = TestEndpoint
    /\ Unpatched
    /\ \E h \in [HeaderNames -> UNION {HeaderSamples(n) : n \in HeaderNames}] :
          /\ \A n \in HeaderNames : h[n] \in HeaderSamples(n)
          /\ headers = [t \in Threads |-> IF t = 1 THEN h ELSE NoHeaders]
    /\ \E a \in PeerSamples :
          remote_addr = [t \in Threads |-> IF t = 1 THEN a ELSE None]
    /\ ip_address = [t \in Threads |-> None]
    /\ save_arg = [t \in Threads |-> EmptyDict]
    /\ body = [t \in Threads |-> EmptyDict]
    /\ store \in InitStores

Next ==
    \/ \E t \in Threads :
          \/ ResolveIP(t)
          \/ GeoCall(t)
          \/ GeoReply(t, RouteGeoAnswers)
          \/ IndexBuild(t)
          \/ SaveBegin(t)
          \/ SaveStamp(t)
          \/ SaveReply(t)
          \/ IndexRender(t)
          \/ ApiRespond(t)
          \/ HealthCheck(t)
    \/ Tick

Spec == Init /\ [][Next]_vars

\* ------------------------------------------------------ concurrent requests
\* The requests sent at the same time: one from a public address with a
\* User-Agent, one from a private address without.
ConcRequests ==
    {[peer |-> PublicIp, agent |-> <<"Mozilla/5.0 Test Browser">>],
     [peer |-> PrivateIp, agent |-> None]}

\* Answers of requests.get to their lookups: a success and a timeout.
ConcGeoAnswers ==
    {Response(200, [k |-> "dict", d |->
        [status |-> <<"success">>, country |-> <<"United States">>,
         countryCode |-> <<"US">>, region |-> <<"NY">>, city |-> <<"New York">>,
         lat |-> <<"float#", "40.7128">>, lon |-> <<"float#", "-74.006">>,
         timezone |-> <<"America/New_York">>]]),
     Raise(Exc("Timeout", <<"timed out">>))}

\* Every thread serves one request to GET / or GET /api/visitor-info; all of
\* them are in flight at once, against an empty container.
InitConc ==
    /\ \E a \in [Threads -> {"index", "api_visitor_info"}],
          q \in [Threads -> ConcRequests] :
          /\ InitThreads(a)
          /\ headers = [t \in Threads |->
                 [n \in HeaderNames |->
                     IF n = "User-Agent" THEN q[t].agent ELSE None]]
          /\ remote_addr = [t \in Threads |-> q[t].peer]
    /\ pc = [t \in Threads |-> "resolve"]
    /\ COSMOS_ENDPOINT = TestEndpoint
    /\ Unpatched
    /\ ip_address = [t \in Threads |-> None]
    /\ save_arg = [t \in Threads |-> EmptyDict]
    /\ body = [t \in Threads |-> EmptyDict]
    /\ store = {}

\* The steps of the threads in every order.  The client is constructed and
\* the container is reached or the credential fails, the page renders, and
\* the requests are served within one clock tick.
NextConc ==
    \E t \in Threads :
        \/ ResolveIP(t)
        \/ GeoCall(t)
        \/ GeoReply(t, ConcGeoAnswers)
        \/ IndexBuild(t)
        \/ SaveBegin(t) /\ cosmos_env'[t].ctor_ok /\ cosmos_env'[t].container_ok
        \/ SaveStamp(t)
        \/ SaveReply(t)
        \/ IndexRender(t) /\ response'[t].status = 200
        \/ ApiRespond(t)

SpecConc == InitConc /\ [][NextConc]_vars

\* ------------------------------------------ the routes that do not persist
\* Every thread serves one request to GET /api/visitor-info or GET /health,
\* in any order and overlapping, against a container that may hold documents.
InitReadOnly ==
    /\ \E a \in [Threads -> {"api_visitor_info", "health_check"}],
          q \in [Threads -> ConcRequests] :
          /\ InitThreads(a)
          /\ pc = [t \in Threads |-> FirstPc(a[t])]
          /\ headers = [t \in Threads |->
                 [n \in HeaderNames |->
                     IF n = "User-Agent" THEN q[t].agent ELSE None]]
          /\ remote_addr = [t \in Threads |-> q[t].peer]
    /\ COSMOS_ENDPOINT = TestEndpoint
    /\ Unpatched
    /\ ip_address = [t \in Threads |-> None]
    /\ save_arg = [t \in Threads |-> EmptyDict]
    /\ body = [t \in Threads |-> EmptyDict]
    /\ store \in InitStores

NextReadOnly ==
    \/ \E t \in Threads :
          \/ ResolveIP(t)
          \/ GeoCall(t)
          \/ GeoReply(t, ConcGeoAnswers)
          \/ ApiRespond(t)
          \/ HealthCheck(t)
    \/ Tick

SpecReadOnly == InitReadOnly /\ [][NextReadOnly]_vars

\* ------------------------------------------- GET / twice from one address
\* Threads 1 and 2 each serve a GET / from the same public address and the
\* other threads stay idle; the two requests overlap in every way while the
\* clock runs, against an empty container.  The lookup succeeds, the client
\* and the container are obtained, and the page renders.
InitSameAddress ==
    /\ InitThreads([t \in Threads |-> IF t \in {1, 2} THEN "index" ELSE "none"])
    /\ pc = [t \in Threads |-> FirstPc(entry[t])]
    /\ headers = [t \in Threads |-> NoHeaders]
    /\ remote_addr = [t \in Threads |-> IF t \in {1, 2} THEN PublicIp ELSE None]
    /\ COSMOS_ENDPOINT = TestEndpoint
    /\ Unpatched
    /\ ip_address = [t \in Threads |-> None]
    /\ save_arg = [t \in Threads |-> EmptyDict]
    /\ body = [t \in Threads |-> EmptyDict]
    /\ store = {}

NextSameAddress ==
    \/ \E t \in Threads :
          \/ ResolveIP(t)
          \/ GeoCall(t)
          \/ GeoReply(t, {a \in ConcGeoAnswers : a.kind = "response"})
          \/ IndexBuild(t)
          \/ SaveBegin(t) /\ cosmos_env'[t] =
                 [cred_ok |-> TRUE, ctor_ok |-> TRUE, container_ok |-> TRUE]
          \/ SaveStamp(t)
          \/ SaveReply(t)
          \/ IndexRender(t) /\ response'[t].status = 200
    \/ Tick

SpecSameAddress == InitSameAddress /\ [][NextSameAddress]_vars

\* ================================================================ claims
\* A thread that executed function f alone and has come back.
Called(t, f) == entry[t] = f /\ pc[t] = "done"

\* The address sources in precedence order, and what each one offers.
SourceOrder == <<AzureHeader, ForwardedHeader, RealIpHeader, "remote_addr">>
SourceValue(t, s) == IF s = "remote_addr" THEN remote_addr[t] ELSE headers[t][s]
Offered(t, s) ==
    IF s = ForwardedHeader /\ SourceValue(t, s) # None
    THEN Strip(SplitFirst(SourceValue(t, s), ","))
    ELSE SourceValue(t, s)

\* get_client_ip came back with what address a yields: a with its port
\* removed, or the TypeError of an address that is None.
ResolvedFrom(t, a) ==
    IF a = None
    THEN raised[t].type = "TypeError"
    ELSE raised[t] = NoExc /\ client_ip[t] = StripPort(a)

\* C1 as stated: the first source that is present (a header that was sent,
\* whatever its value), in the order X-Azure-ClientIP, X-Forwarded-For,
\* X-Real-IP, remote_addr, is the one get_client_ip resolves from.
C1_PresentHeaderWins ==
    \A t \in Threads : Called(t, "get_client_ip") =>
        \A i \in 1..4 :
            ( /\ i < 4 => SourceValue(t, SourceOrder[i]) # None
              /\ \A j \in 1..(i - 1) : SourceValue(t, SourceOrder[j]) = None )
            => ResolvedFrom(t, Offered(t, SourceOrder[i]))

\* C1 amended: the first header that is present with a non-empty value wins,
\* in the order X-Azure-ClientIP, X-Forwarded-For (its first comma-separated
\* entry, stripped), X-Real-IP; with no such header the peer address is used.
\* A header sent with an empty value counts as absent.
C1_NonEmptyHeaderWins ==
    \A t \in Threads : Called(t, "get_client_ip") =>
        \A i \in 1..4 :
            ( /\ i < 4 => ~Falsy(SourceValue(t, SourceOrder[i]))
              /\ \A j \in 1..(i - 1) : Falsy(SourceValue(t, SourceOrder[j])) )
            => ResolvedFrom(t, Offered(t, SourceOrder[i]))

\* Two headers carry different non-empty values and the higher one was used.
C1_Witness ==
    \E t \in Threads :
        /\ Called(t, "get_client_ip")
        /\ ~Falsy(headers[t][ForwardedHeader])
        /\ ~Falsy(headers[t][RealIpHeader])
        /\ Falsy(headers[t][AzureHeader])
        /\ Offered(t, ForwardedHeader) # Offered(t, RealIpHeader)
        /\ client_ip[t] = StripPort(Offered(t, ForwardedHeader))
        /\ client_ip[t] # StripPort(Offered(t, RealIpHeader))

\* a without one trailing ":port": the part before its last colon; a
\* bracketed address is left alone.
RECURSIVE LastIndexOf(_, _)
LastIndexOf(s, c) ==
    IF s = <<>> THEN 0
    ELSE IF s[Len(s)] = c THEN Len(s)
    ELSE LastIndexOf(SubSeq(s, 1, Len(s) - 1), c)

WithoutTrailingPort(a) ==
    IF StartsWith(a, <<"[">>) \/ ~Contains(a, ":") THEN a
    ELSE SubSeq(a, 1, LastIndexOf(a, ":") - 1)

\* C2: the value returned by get_client_ip is the selected address with at
\* most one trailing :port removed; a bracketed address is unchanged and
\* nothing but a trailing port is dropped.
C2_OnlyTrailingPortDropped ==
    \A t \in Threads :
        Called(t, "get_client_ip") /\ raised[t] = NoExc =>
            client_ip[t] = WithoutTrailingPort(SelectAddress(headers[t], remote_addr[t]))

\* ------------------------------------------------------- geolocation claims
\* GETs that thread t sent to the provider.
GetsSentBy(t) == {i \in 1..Len(http_log) : http_log[i].thread = t}

\* The addresses C3 names: 127.0.0.1, localhost, 192.168.*, 10.*, 172.*.
NamedLocal(ip) ==
    /\ ip # None
    /\ \/ ip = <<"1", "2", "7", ".", "0", ".", "0", ".", "1">>
       \/ ip = <<"l", "o", "c", "a", "l", "h", "o", "s", "t">>
       \/ Len(ip) >= 8 /\ SubSeq(ip, 1, 8) = <<"1", "9", "2", ".", "1", "6", "8", ".">>
       \/ Len(ip) >= 3 /\ SubSeq(ip, 1, 3) = <<"1", "0", ".">>
       \/ Len(ip) >= 4 /\ SubSeq(ip, 1, 4) = <<"1", "7", "2", ".">>

\* C3: for 127.0.0.1, localhost and every address starting with 192.168.,
\* 10. or 172., get_country_from_ip returns country "Local/Private",
\* countryCode "LOCAL", and at no point sends a GET to the provider.
C3_LocalShortCircuit ==
    \A t \in Threads :
        entry[t] = "get_country_from_ip" /\ NamedLocal(ip_address[t]) =>
            /\ GetsSentBy(t) = {}
            /\ pc[t] # "geo_wait"
            /\ pc[t] = "done" =>
                  /\ raised[t] = NoExc
                  /\ country_info[t]["country"] = <<"Local/Private">>
                  /\ country_info[t]["countryCode"] = <<"LOCAL">>

\* A 172.* address was answered as local.
C3_Witness ==
    \E t \in Threads :
        /\ Called(t, "get_country_from_ip")
        /\ ip_address[t] = <<"1", "7", "2", ".", "2", "1", "7", ".", "3", ".", "4">>
        /\ country_info[t]["country"] = <<"Local/Private">>
        /\ http_log = <<>>

\* C4: get_country_from_ip("") returns country "Invalid IP", countryCode
\* "XX", and sends no GET to the provider.
C4_EmptyIsInvalid ==
    \A t \in Threads :
        entry[t] = "get_country_from_ip" /\ ip_address[t] = <<>> =>
            /\ GetsSentBy(t) = {}
            /\ pc[t] = "done" =>
                  /\ raised[t] = NoExc
                  /\ country_info[t]["country"] = <<"Invalid IP">>
                  /\ country_info[t]["countryCode"] = <<"XX">>

C4_Witness ==
    \E t \in Threads :
        /\ Called(t, "get_country_from_ip")
        /\ ip_address[t] = <<>>
        /\ country_info[t]["country"] = <<"Invalid IP">>

\* The provider answered HTTP 200 with a JSON object.
Got200Object(got) ==
    got.kind = "response" /\ got.status_code = 200 /\ got.body.k = "dict"
GotSuccess(got) ==
    /\ Got200Object(got)
    /\ "status" \in DOMAIN got.body.d
    /\ got.body.d["status"] = <<"success">>

NormalizedKeys == {"country", "countryCode", "city", "region", "latitude",
                   "longitude", "timezone"}
ErrorKeys == {"country", "countryCode", "city", "region"}

\* C5: for an address that is neither local nor empty the GET is sent, and
\* its outcome decides the result: 200 + status success, the normalized
\* record; 200 + another status, "API Error: <message>"; a non-200 status,
\* "HTTP Error: <code>"; a timeout, "Timeout Error"; any other exception
\* (that of a body that cannot be read included), "Error: <text>"; the four
\* error results have countryCode "XX".
C5_OutcomeClassified ==
    \A t \in Threads : Called(t, "get_country_from_ip") =>
        LET ip == ip_address[t]
            got == upstream[t]
            info == country_info[t]
        IN  /\ (ip # None /\ ip # <<>> /\ ~NamedLocal(ip)) =>
                   got # NoAnswer /\ Cardinality(GetsSentBy(t)) = 1
            /\ got # NoAnswer =>
                  /\ raised[t] = NoExc
                  /\ GotSuccess(got) => DOMAIN info = NormalizedKeys
                  /\ ~GotSuccess(got) =>
                        DOMAIN info = ErrorKeys /\ info["countryCode"] = <<"XX">>
                  /\ (Got200Object(got) /\ ~GotSuccess(got)) =>
                        /\ SubSeq(info["country"], 1, 1) = <<"API Error: ">>
                        /\ ("message" \in DOMAIN got.body.d
                              /\ got.body.d["message"] # None) =>
                              info["country"] = <<"API Error: ">> \o got.body.d["message"]
                  /\ (got.kind = "response" /\ got.status_code # 200) =>
                        info["country"] = <<"HTTP Error: ">> \o Digits(got.status_code)
                  /\ (got.kind = "raise" /\ got.exc.type \in TimeoutClasses) =>
                        info["country"] = <<"Timeout Error">>
                  /\ (got.kind = "raise" /\ got.exc.type \notin TimeoutClasses) =>
                        info["country"] = <<"Error: ">> \o got.exc.text
                  /\ (got.kind = "response" /\ got.status_code = 200
                        /\ got.body.k # "dict") =>
                        SubSeq(info["country"], 1, 1) = <<"Error: ">>

\* A read timeout was reported as "Timeout Error".
C5_Witness ==
    \E t \in Threads :
        /\ Called(t, "get_country_from_ip")
        /\ upstream[t] = Raise(Exc("ReadTimeout", <<"timed out">>))
        /\ country_info[t]["country"] = <<"Timeout Error">>
        /\ country_info[t]["countryCode"] = <<"XX">>

\* The provider's field behind each field of the result, and the value a
\* missing provider field is replaced by.
UpstreamField(f) ==
    CASE f = "latitude" -> "lat" [] f = "longitude" -> "lon" [] OTHER -> f
MissingValue(f) ==
    CASE f = "countryCode" -> <<"XX">>
      [] f \in {"latitude", "longitude"} -> None
      [] OTHER -> <<"Unknown">>

\* C6: on HTTP 200 with status success, country, countryCode, city, region
\* and timezone are the provider's fields of the same name, latitude and
\* longitude are its lat and lon; a field the provider left out is
\* "Unknown" ("XX" for countryCode), a missing lat or lon is None.
C6_SuccessCopiesFields ==
    \A t \in Threads :
        Called(t, "get_country_from_ip") /\ upstream[t] # NoAnswer
            /\ GotSuccess(upstream[t]) =>
            LET d == upstream[t].body.d
                info == country_info[t]
            IN  /\ DOMAIN info = NormalizedKeys
                /\ \A f \in NormalizedKeys :
                      info[f] = IF UpstreamField(f) \in DOMAIN d
                                THEN d[UpstreamField(f)]
                                ELSE MissingValue(f)

\* A success answer carrying every field came back field for field.
C6_Witness ==
    \E t \in Threads :
        /\ Called(t, "get_country_from_ip")
        /\ upstream[t] # NoAnswer
        /\ GotSuccess(upstream[t])
        /\ DOMAIN upstream[t].body.d = GeoFields
        /\ upstream[t].body.d["country"] # None
        /\ country_info[t] =
              [country |-> <<"United States">>, countryCode |-> <<"US">>,
               city |-> <<"New York">>, region |-> <<"NY">>,
               latitude |-> <<"float#", "40.7128">>,
               longitude |-> <<"float#", "-74.006">>,
               timezone |-> <<"America/New_York">>]

\* C7: get_country_from_ip never raises; whatever the address (None
\* included) and whatever the provider does, it returns a record with at
\* least the keys country, countryCode, city and region.
C7_NeverRaises ==
    \A t \in Threads : Called(t, "get_country_from_ip") =>
        /\ raised[t] = NoExc
        /\ ErrorKeys \subseteq DOMAIN country_info[t]

\* Called with None, it returned the error record of the AttributeError.
C7_Witness ==
    \E t \in Threads :
        /\ Called(t, "get_country_from_ip")
        /\ ip_address[t] = None
        /\ raised[t] = NoExc
        /\ country_info[t]["country"] =
              <<"Error: ", "'NoneType' object has no attribute 'startswith'">>

\* ------------------------------------------------------------ record shape
\* The fields of a VisitorRecord that the data model types as strings.
VisitorStringFields == {"ip_address", "user_agent", "country", "country_code",
                        "city", "region", "timezone", "referer", "accept_language"}

\* C8: every record get_country_from_ip returns, on every path, has all of
\* country, countryCode, city, region, latitude, longitude and timezone, and
\* every VisitorRecord built from it has each string field set to a str
\* (a sentinel when unknown), never absent and never None.
C8_NoMissingField ==
    \A t \in Threads : entry[t] = "index" =>
        /\ country_info[t] # EmptyDict =>
              NormalizedKeys \subseteq DOMAIN country_info[t]
        /\ visitor_data[t] # EmptyDict =>
              \A f \in VisitorStringFields :
                  f \in DOMAIN visitor_data[t] /\ visitor_data[t][f] # None

\* ------------------------------------------------------ persistence claims
\* The create_item calls thread t made.
InsertsBy(t) == {i \in 1..Len(cosmos_log) : cosmos_log[i].thread = t}

\* C9: the document handed to create_item, and stored when the insert
\* succeeds, is the argument of save_to_cosmos with id set to
\* "<ip_address>_<whole seconds of the clock read for the id>" and timestamp
\* set to the ISO form of the clock read after it; every other field of the
\* argument is there unchanged and no further field is added.
C9_DocumentIsInputPlusIdAndTimestamp ==
    /\ \A i \in 1..Len(cosmos_log) :
          LET t == cosmos_log[i].thread
              doc == cosmos_log[i].doc
              arg == save_arg[t]
          IN  /\ DOMAIN doc = DOMAIN arg \cup {"id", "timestamp"}
              /\ \A k \in DOMAIN arg \ {"id", "timestamp"} : doc[k] = arg[k]
              /\ doc["id"] =
                    (IF arg["ip_address"] = None THEN <<"None">> ELSE arg["ip_address"])
                    \o <<"_">> \o Digits(id_tick[t] \div TicksPerSecond)
              /\ doc["timestamp"] = IsoFormat(stamp_tick[t])
              /\ id_tick[t] <= stamp_tick[t] /\ stamp_tick[t] <= clock
    /\ \A t \in Threads :
          store_answer[t] # NoAnswer /\ store_answer[t].kind = "return" =>
              /\ body[t] \in store
              /\ \E i \in InsertsBy(t) : cosmos_log[i].doc = body[t]

\* A document was stored whose id was derived in the middle of a second.
C9_Witness ==
    \E t \in Threads :
        /\ Called(t, "save_to_cosmos")
        /\ store_answer[t] # NoAnswer /\ store_answer[t].kind = "return"
        /\ "country" \in DOMAIN save_arg[t]
        /\ id_tick[t] % TicksPerSecond # 0
        /\ id_tick[t] < stamp_tick[t]
        /\ body[t] \in store

\* C10: save_to_cosmos never raises; it returns True when the insert
\* succeeds or the store reports that the resource already exists, and
\* False when there is no client or when anything else fails: obtaining the
\* container, deriving the id, or the insert.
C10_BooleanByOutcome ==
    \A t \in Threads : Called(t, "save_to_cosmos") =>
        LET env == cosmos_env[t]
            ans == store_answer[t]
            sent == InsertsBy(t) # {}
        IN  /\ raised[t] = NoExc
            /\ ~(env.cred_ok /\ env.ctor_ok) => ~cosmos_saved[t] /\ ~sent
            /\ ~env.container_ok => ~cosmos_saved[t] /\ ~sent
            /\ "ip_address" \notin DOMAIN save_arg[t] => ~cosmos_saved[t] /\ ~sent
            /\ (env.cred_ok /\ env.ctor_ok /\ env.container_ok
                  /\ "ip_address" \in DOMAIN save_arg[t]) =>
                  /\ sent /\ ans # NoAnswer
                  /\ cosmos_saved[t] <=>
                        \/ ans.kind = "return"
                        \/ ans.kind = "raise"
                              /\ ans.exc.type = "CosmosResourceExistsError"

\* The store rejected the id as existing and the call returned True.
C10_Witness ==
    \E t \in Threads :
        /\ Called(t, "save_to_cosmos")
        /\ store_answer[t] = Raise(Exc("CosmosResourceExistsError", <<"Conflict">>))
        /\ cosmos_saved[t]
        /\ body[t] \notin store

\* C11: get_cosmos_client never lets an exception out.  When the credential
\* or the client constructor throws it returns None; when both succeed it
\* returns the client constructed from the configured endpoint and from the
\* credential it has just created.
C11_FailsClosed ==
    \A t \in Threads : Called(t, "get_cosmos_client") =>
        LET env == cosmos_env[t] IN
        /\ raised[t] = NoExc
        /\ cosmos_client[t] =
              IF env.cred_ok /\ env.ctor_ok
              THEN ClientOf(COSMOS_ENDPOINT, NewCredential(TRUE).val)
              ELSE None

\* The credential was created, the constructor threw, and the call came back
\* with None.
C11_Witness ==
    \E t \in Threads :
        /\ Called(t, "get_cosmos_client")
        /\ cosmos_env[t].cred_ok /\ ~cosmos_env[t].ctor_ok
        /\ cosmos_client[t] = None /\ raised[t] = NoExc
        /\ COSMOS_ENDPOINT = TestEndpoint

\* A route that has answered.
Answered(t, route) == entry[t] = route /\ pc[t] = "done"

\* What the call get_cosmos_client() of health_check did in thread t.
HealthClientCall(t) ==
    IF client_stub[t].kind = "none" THEN Return(cosmos_client[t]) ELSE client_stub[t]

\* C12: GET /health answers 200 with status "healthy" and cosmos_db
\* "connected" when get_cosmos_client yields a client, 200 with "healthy" and
\* "disconnected" when it yields None, and 500 with status "unhealthy" and the
\* exception text exactly when the call get_cosmos_client() itself throws.
\* With app.py's own get_cosmos_client, a client means that the credential
\* and the client were both constructed.
C12_HealthByClient ==
    \A t \in Threads : Answered(t, "health_check") =>
        LET call == HealthClientCall(t)
            r == response[t]
        IN  /\ raised[t] = NoExc
            /\ "timestamp" \in DOMAIN r.json
            /\ (r.status = 500) <=> (call.kind = "raise")
            /\ call.kind = "raise" =>
                  /\ r.json.status = <<"unhealthy">>
                  /\ r.json.error = call.exc.text
            /\ call.kind = "return" =>
                  /\ r.status = 200
                  /\ r.json.status = <<"healthy">>
                  /\ r.json.cosmos_db =
                        IF call.val = None THEN <<"disconnected">> ELSE <<"connected">>
            /\ client_stub[t].kind = "none" =>
                  ((call.val # None) <=> (cosmos_env[t].cred_ok /\ cosmos_env[t].ctor_ok))

\* get_cosmos_client threw and the route answered 500 "unhealthy" with the
\* text of the exception.
C12_Witness ==
    \E t \in Threads :
        /\ Answered(t, "health_check")
        /\ client_stub[t].kind = "raise"
        /\ response[t].status = 500
        /\ response[t].json.status = <<"unhealthy">>
        /\ response[t].json.error = <<"Health check error">>

\* Thread t has called f.
HasCalled(t, f) == \E i \in 1..Len(steps[t]) : steps[t][i] = f

\* What get_country_from_ip returns for the address thread t resolved and
\* for what requests.get did, if the GET was sent.
LookupResult(t) ==
    IF upstream[t] = NoAnswer
    THEN GeoWithoutGet(client_ip[t]).val
    ELSE GeoWithAnswer(upstream[t]).val

ApiKeys == {"ip_address", "user_agent", "country_info", "timestamp"}

\* C13: whatever the geolocation lookup of GET /api/visitor-info comes to
\* (success, provider failure, HTTP error, timeout, transport exception, or
\* no GET at all), the answer is 200 with a JSON body of exactly the keys
\* ip_address, user_agent, country_info and timestamp, where ip_address is
\* the resolved address and country_info is what get_country_from_ip
\* returned for it, unchanged.
C13_ApiBodyForEveryLookup ==
    \A t \in Threads :
        Answered(t, "api_visitor_info") /\ HasCalled(t, "get_country_from_ip") =>
            LET r == response[t] IN
            /\ raised[t] = NoExc
            /\ r.status = 200
            /\ DOMAIN r.json = ApiKeys
            /\ r.json.ip_address = get_client_ip(headers[t], remote_addr[t]).val
            /\ r.json.country_info = LookupResult(t)
            /\ r.json.country_info = country_info[t]
            /\ r.json.user_agent # None
            /\ \E c \in 0..clock : r.json.timestamp = IsoFormat(c)

\* The lookup timed out and the route answered with the four keys.
C13_Witness ==
    \E t \in Threads :
        /\ Answered(t, "api_visitor_info")
        /\ upstream[t].kind = "raise"
        /\ upstream[t].exc.type = "Timeout"
        /\ response[t].status = 200
        /\ DOMAIN response[t].json = ApiKeys

\* The exceptions raised by the steps thread t has run: the one of
\* get_client_ip for this request, and the ones of rendering index.html.
ChainExceptions(t) ==
    {r.exc : r \in {x \in {get_client_ip(headers[t], remote_addr[t])} :
                        x.kind = "raise"}}
    \cup (IF HasCalled(t, "render_template")
          THEN {r.exc : r \in {x \in RenderAnswers : x.kind = "raise"}}
          ELSE {})

\* C14: an exception raised by a step of GET / or of GET /api/visitor-info
\* never leaves the handler.  The answer is then 500 and carries the text of
\* that exception, in the error page for GET / and as {"error": text} for
\* GET /api/visitor-info; and a 500 of these routes always carries the text
\* of an exception one of its steps raised.
C14_ExceptionBecomes500 ==
    \A t \in Threads : entry[t] \in {"index", "api_visitor_info"} =>
        /\ raised[t] = NoExc
        /\ pc[t] = "done" =>
              LET r == response[t]
                  ip == get_client_ip(headers[t], remote_addr[t])
              IN  /\ r.status \in {200, 500}
                  /\ ip.kind = "raise" =>
                        /\ r.status = 500
                        /\ steps[t] = <<"get_client_ip">>
                        /\ IF entry[t] = "index"
                           THEN r.template = "error.html" /\ r.error = ip.exc.text
                           ELSE r.json = [error |-> ip.exc.text]
                  /\ r.status = 500 =>
                        \E e \in ChainExceptions(t) :
                            IF entry[t] = "index"
                            THEN r.template = "error.html" /\ r.error = e.text
                            ELSE r.json = [error |-> e.text]

\* GET /api/visitor-info answered 500 with the text of the TypeError that
\* get_client_ip raised.
C14_Witness ==
    \E t \in Threads :
        /\ Answered(t, "api_visitor_info")
        /\ get_client_ip(headers[t], remote_addr[t]).kind = "raise"
        /\ response[t].status = 500
        /\ response[t].json = [error |-> <<"argument of type 'NoneType' is not iterable">>]

\* The boolean save_to_cosmos returns for what happened in thread t: no
\* client, no container, a stored document, a duplicate, or another
\* exception of the write.
SaveOutcomeFlag(t) ==
    /\ cosmos_env[t].cred_ok /\ cosmos_env[t].ctor_ok /\ cosmos_env[t].container_ok
    /\ store_answer[t] # NoAnswer
    /\ \/ store_answer[t].kind = "return"
       \/ store_answer[t].kind = "raise"
             /\ store_answer[t].exc.type = "CosmosResourceExistsError"

\* C15: once GET / has called save_to_cosmos, no outcome of it (stored, no
\* client, exception of the write, duplicate) makes the request fail: the
\* answer is the 200 page, whose cosmos_saved is the boolean save_to_cosmos
\* returned for that outcome.  The only other answer is the 500 of a
\* failure to render the page, which carries the template engine's
\* exception.
C15_SaveNeverChangesStatus ==
    \A t \in Threads : Answered(t, "index") /\ HasCalled(t, "save_to_cosmos") =>
        LET r == response[t] IN
        /\ raised[t] = NoExc
        /\ cosmos_saved[t] = SaveOutcomeFlag(t)
        /\ IF r.status = 200
           THEN r.template = "index.html" /\ r.cosmos_saved = cosmos_saved[t]
           ELSE /\ r.status = 500
                /\ \E x \in RenderAnswers : x.kind = "raise" /\ r.error = x.exc.text

\* The write failed with an exception that is not a duplicate, and GET /
\* answered 200 with cosmos_saved false.
C15_Witness ==
    \E t \in Threads :
        /\ Answered(t, "index")
        /\ store_answer[t] # NoAnswer
        /\ store_answer[t].kind = "raise"
        /\ store_answer[t].exc.type # "CosmosResourceExistsError"
        /\ response[t].status = 200
        /\ ~response[t].cosmos_saved

\* The steps of GET /, in the order of the source.
IndexOrder ==
    <<"get_client_ip", "get_country_from_ip", "visitor_data", "save_to_cosmos",
      "render_template">>

\* The value of header n in the record, d when the header is absent.
HeaderOr(t, n, d) == IF headers[t][n] = None THEN d ELSE headers[t][n]

\* The value of key k of the lookup result of thread t, None when absent.
InfoOr(t, k) ==
    IF k \in DOMAIN country_info[t] THEN country_info[t][k] ELSE None

C17_NoErrorPath ==
    \A t \in Threads : Called(t, "get_client_ip") =>
        /\ raised[t] = NoExc
        /\ client_ip[t] # None

\* C18: nothing is retried.  Whatever the lookup and the write come to, one
\* request sends at most one GET to the geolocation provider and makes at
\* most one create_item call; a request whose lookup failed or whose write
\* failed has sent exactly one.
C18_NoRetry ==
    \A t \in Threads : entry[t] \in Routes =>
        /\ Cardinality(GetsSentBy(t)) <= 1
        /\ Cardinality(InsertsBy(t)) <= 1
        /\ upstream[t] # NoAnswer => Cardinality(GetsSentBy(t)) = 1
        /\ store_answer[t] # NoAnswer => Cardinality(InsertsBy(t)) = 1

\* The lookup of GET / timed out, the write failed, and the request is over
\* with one GET and one create_item call.
C18_Witness ==
    \E t \in Threads :
        /\ Answered(t, "index")
        /\ upstream[t].kind = "raise"
        /\ upstream[t].exc.type = "Timeout"
        /\ store_answer[t] # NoAnswer
        /\ store_answer[t].kind = "raise"
        /\ Cardinality(GetsSentBy(t)) = 1
        /\ Cardinality(InsertsBy(t)) = 1

\* C20: what save_to_cosmos writes into its argument never shows in the
\* record GET / renders.  Once save_to_cosmos has been called, the dict index
\* holds stays the record as built, and the rendered page shows that record:
\* it has neither an id nor a timestamp, whatever save_to_cosmos added to
\* the copy it was given.
C20_RenderedRecordUntouched ==
    \A t \in Threads : entry[t] = "index" /\ HasCalled(t, "save_to_cosmos") =>
        LET built == BuildVisitorData(client_ip[t], headers[t], country_info[t]) IN
        /\ visitor_data[t] = built
        /\ save_arg[t] = built
        /\ {"id", "timestamp"} \cap DOMAIN visitor_data[t] = {}
        /\ pc[t] = "done" /\ response[t].status = 200 =>
              /\ response[t].visitor_data = built
              /\ {"id", "timestamp"} \cap DOMAIN response[t].visitor_data = {}

\* save_to_cosmos added an id and a timestamp to its copy and stored it, and
\* the page rendered afterwards shows the record without them.
C20_Witness ==
    \E t \in Threads :
        /\ Answered(t, "index")
        /\ response[t].status = 200
        /\ response[t].cosmos_saved
        /\ {"id", "timestamp"} \subseteq DOMAIN body[t]
        /\ body[t] \in store
        /\ {"id", "timestamp"} \cap DOMAIN response[t].visitor_data = {}

\* The answer that the request of thread t calls for, from its own headers
\* and peer address and from what the provider and the container answered
\* to its own calls.
OwnAddress(t) == get_client_ip(headers[t], remote_addr[t]).val
OwnRecord(t) == BuildVisitorData(OwnAddress(t), headers[t], LookupResult(t))
OwnAnswer(t) ==
    IF entry[t] = "index"
    THEN response[t] = IndexPage(OwnRecord(t), SaveOutcomeFlag(t))
    ELSE /\ response[t].status = 200
         /\ response[t].json.ip_address = OwnAddress(t)
         /\ response[t].json.user_agent = HeaderOr(t, "User-Agent", <<"Unknown">>)
         /\ response[t].json.country_info = LookupResult(t)

\* C19: requests served at the same time do not affect one another, in
\* whatever order their steps interleave.  Everything a request holds is
\* determined by its own headers and peer address and by the answers to its
\* own calls: the address it resolved, the lookup it sent and its result, the
\* record it built, the document it handed to the container, and its
\* answer; and a request that has not yet run a step holds nothing.
C19_RequestsIndependent ==
    \A t \in Threads :
        /\ raised[t] = NoExc
        /\ client_ip[t] = IF HasCalled(t, "get_client_ip") THEN OwnAddress(t) ELSE None
        /\ ip_address[t] = client_ip[t]
        /\ \A i \in GetsSentBy(t) : http_log[i].url = GeoUrl(OwnAddress(t))
        /\ upstream[t] # NoAnswer => GetsSentBy(t) # {}
        /\ country_info[t] =
              IF pc[t] \in {"resolve", "geo", "geo_wait"} THEN EmptyDict
              ELSE LookupResult(t)
        /\ visitor_data[t] =
              IF HasCalled(t, "visitor_data") THEN OwnRecord(t) ELSE EmptyDict
        /\ save_arg[t] = visitor_data[t]
        /\ \A i \in InsertsBy(t) :
              /\ cosmos_log[i].doc = body[t]
              /\ \A k \in DOMAIN OwnRecord(t) : body[t][k] = OwnRecord(t)[k]
              /\ body[t]["id"] =
                    OwnAddress(t) \o <<"_">> \o Digits(UnixSeconds(id_tick[t]))
        /\ store_answer[t] # NoAnswer => InsertsBy(t) # {}
        /\ cosmos_saved[t] = (HasCalled(t, "save_to_cosmos") /\ pc[t] \in {"render", "done"}
                                 /\ SaveOutcomeFlag(t))
        /\ IF pc[t] = "done" THEN OwnAnswer(t) ELSE response[t] = NoResponse

\* Two requests from different addresses in flight at once: one made its
\* create_item call first and is still waiting for the container, the other
\* made its call later and has already been answered with its own record.
C19_Witness ==
    \E t \in Threads, u \in Threads :
        /\ t # u
        /\ remote_addr[t] # remote_addr[u]
        /\ Answered(t, "index") /\ response[t].status = 200
        /\ response[t].visitor_data["ip_address"] = remote_addr[t]
        /\ entry[u] = "index" /\ pc[u] = "save_wait"
        /\ \E i \in InsertsBy(u), j \in InsertsBy(t) : i < j

\* C21: a step of a GET /api/visitor-info or GET /health request leaves the
\* container as it was and makes no create_item call, so after any sequence
\* of such requests the documents are the ones there were before; and a
\* step of a GET /health request sends no GET to the geolocation provider.
C21_OnlyIndexWrites ==
    [][\A t \in Threads :
          pc'[t] # pc[t] /\ entry[t] \in {"api_visitor_info", "health_check"} =>
              /\ store' = store
              /\ cosmos_log' = cosmos_log
              /\ InsertsBy(t) = {}
              /\ entry[t] = "health_check" =>
                    http_log' = http_log /\ GetsSentBy(t) = {}]_vars

\* A GET /api/visitor-info that sent its lookup and a GET /health that
\* constructed a client have both answered, and the container still holds
\* the two documents it held.
C21_Witness ==
    \E t \in Threads, u \in Threads :
        /\ Answered(t, "api_visitor_info") /\ response[t].status = 200
        /\ GetsSentBy(t) # {}
        /\ Answered(u, "health_check")
        /\ response[u].json.cosmos_db = <<"connected">>
        /\ store = {StoredAt(PublicIp, 0), StoredAt(PublicIp, TicksPerSecond)}
        /\ cosmos_log = <<>>

\* C22: with app.py's own get_cosmos_client, GET /health answers 200 with
\* status "healthy" whether or not the credential and the client could be
\* constructed.  A construction failure shows as cosmos_db "disconnected",
\* never as the 500 "unhealthy" answer, and nothing is left raised.
C22_ConstructionFailureIsDisconnected ==
    \A t \in Threads :
        Answered(t, "health_check") /\ client_stub[t].kind = "none" =>
            LET constructed == cosmos_env[t].cred_ok /\ cosmos_env[t].ctor_ok IN
            /\ raised[t] = NoExc
            /\ response[t].status = 200
            /\ response[t].json.status = <<"healthy">>
            /\ "error" \notin DOMAIN response[t].json
            /\ response[t].json.cosmos_db =
                  IF constructed THEN <<"connected">> ELSE <<"disconnected">>
            /\ cosmos_client[t] = None <=> ~constructed

\* The credential was created, the client constructor threw, and GET /health
\* answered 200 "healthy" with cosmos_db "disconnected".
C22_Witness ==
    \E t \in Threads :
        /\ Answered(t, "health_check")
        /\ client_stub[t].kind = "none"
        /\ cosmos_env[t].cred_ok /\ ~cosmos_env[t].ctor_ok
        /\ response[t].status = 200
        /\ response[t].json.status = <<"healthy">>
        /\ response[t].json.cosmos_db = <<"disconnected">>

\* Thread t has derived the id of its document; the id is the one of a
\* document the container holds; the container rejected t's document as
\* already existing.
HasId(t) == "id" \in DOMAIN body[t]
IdTaken(t) == \E d \in store : d["id"] = body[t]["id"]
Rejected(t) ==
    /\ store_answer[t] # NoAnswer
    /\ store_answer[t].kind = "raise"
    /\ store_answer[t].exc.type = "CosmosResourceExistsError"

\* What holds of the container and of the GET / requests in every state: one
\* document per id; two requests that resolved the same address derive the
\* same id exactly when they read the clock within the same second; and a
\* request whose document was rejected as already existing comes back from
\* save_to_cosmos with True and shows cosmos_saved true on its page.
OneDocumentPerId ==
    /\ \A d1 \in store, d2 \in store : d1["id"] = d2["id"] => d1 = d2
    /\ \A t \in Threads, u \in Threads :
          /\ entry[t] = "index" /\ entry[u] = "index"
          /\ HasId(t) /\ HasId(u)
          /\ client_ip[t] = client_ip[u]
          => ((UnixSeconds(id_tick[t]) = UnixSeconds(id_tick[u]))
                 <=> (body[t]["id"] = body[u]["id"]))
    /\ \A t \in Threads : entry[t] = "index" /\ Rejected(t) =>
          /\ pc[t] \in {"render", "done"}
          /\ cosmos_saved[t]
          /\ pc[t] = "done" =>
                response[t].status = 200 /\ response[t].cosmos_saved

\* C23: the container holds at most one document per derived id.  Two GET /
\* requests that resolve the same address within the same clock second
\* derive the same id; the create_item call that comes back second, its id
\* being taken, is never accepted and leaves the container exactly as it
\* was; and the request so rejected still gets True from save_to_cosmos and
\* shows cosmos_saved true, although its own document is not the stored one.
C23_DuplicateIdKeepsFirst ==
    [][/\ OneDocumentPerId'
       /\ \A t \in Threads :
             entry[t] = "index" /\ pc[t] = "save_wait" /\ pc'[t] # "save_wait"
                /\ IdTaken(t) =>
                   /\ store' = store
                   /\ store_answer'[t].kind = "raise"
                   /\ store_answer'[t].exc.type = "CosmosResourceExistsError"
                         => cosmos_saved'[t]]_vars

\* Two GET / requests from one address stamped their documents at different
\* ticks of the same second; the first document is the only one stored, the
\* second was rejected as already existing, and the second request's page
\* shows cosmos_saved true.
C23_Witness ==
    \E t \in Threads, u \in Threads :
        /\ t # u
        /\ Answered(t, "index") /\ Answered(u, "index")
        /\ body[t]["id"] = body[u]["id"]
        /\ body[t]["timestamp"] # body[u]["timestamp"]
        /\ store_answer[u].kind = "return"
        /\ Rejected(t)
        /\ store = {body[u]}
        /\ body[t] \notin store
        /\ response[t].status = 200 /\ response[t].cosmos_saved
====
